---- MODULE Spec2Model ----
(***************************************************************************)
(* Authentication, reauthentication and service-client construction of the *)
(* openstack package (client.go).  A ProviderClient is a record; the       *)
(* closures the package installs on it (ReauthFunc, EndpointLocator) are   *)
(* records of the variables they capture.  The identity service is the     *)
(* environment: it answers every request with an outcome drawn from a      *)
(* small set.                                                              *)
(***************************************************************************)
EXTENDS Integers, Sequences, FiniteSets, TLC

\* ------------------------------------------------------------------------
\* Bounds
\* ------------------------------------------------------------------------
\* Number of tokens in existence before the identity service only fails.
MaxClock == 3
\* Number of Authenticate* calls made on the provider.
MaxAuths == 1
\* Number of concurrent request goroutines sharing the provider.
NumThreads == 2
Threads == 1..NumThreads
\* Number of entries in a catalog whose lookups are compared across orders.
MaxEntries == 3
\* Largest revision number an update is conditioned on.
MaxRevision == 11

\* ------------------------------------------------------------------------
\* Values
\* ------------------------------------------------------------------------
v2 == "v2.0"
v3 == "v3"

\* A URL is host + version path + trailing slash.
NoURL == [host |-> "", ver |-> "", slash |-> FALSE]
URL(h, v) == [host |-> h, ver |-> v, slash |-> TRUE]

NormalizeURL(u) == [u EXCEPT !.slash = TRUE]

\* utils.BaseEndpoint: the URL up to its version path.
BaseEndpoint(u) == [host |-> u.host, ver |-> "", slash |-> TRUE]

\* base + "v3/" : string concatenation onto a slash-terminated base.
WithSuffix(base, v) == [host |-> base.host, ver |-> v, slash |-> TRUE]

\* Service catalog: a list of (type, region, interface, url) entries.
Entry(t, r, i, h) == [type |-> t, region |-> r, interface |-> i, url |-> URL(h, "")]
CatalogA == << Entry("identity", "r1", "public", "catA-id"),
               Entry("compute", "r1", "public", "catA-compute") >>
CatalogB == << Entry("compute", "r1", "public", "catB-compute"),
               Entry("identity", "r1", "public", "catB-id"),
               Entry("identity", "r1", "internal", "catB-id-int"),
               Entry("compute", "r2", "public", "catB-compute-r2") >>
Catalogs == {CatalogA, CatalogB}

\* gophercloud.EndpointOpts
EmptyEO == [Type |-> "", Region |-> "", Availability |-> "", Version |-> 0]

ApplyDefaults(eo, clientType) ==
  [eo EXCEPT !.Type = IF eo.Type = "" THEN clientType ELSE eo.Type,
             !.Availability = IF eo.Availability = "" THEN "public" ELSE eo.Availability]

\* An AuthResult as stored on the provider: the token and the catalog of one
\* answer of the identity service.
NoResult == [set |-> FALSE, token |-> 0, catalog |-> << >>]

\* The EndpointLocator closure: the version of the lookup function and the
\* catalog variable it captured; token names the answer the catalog came in.
NoLocator == [ver |-> "nil", catalog |-> << >>, token |-> 0]

\* Auth options: the dynamic type behind the AuthOptionsBuilder interface and
\* the fields v2auth/v3auth look at.  wrapped: inside a v2TokenNoReauth.
NoOpts == [type |-> "", AllowReauth |-> FALSE, TokenID |-> 0, scoped |-> FALSE, wrapped |-> FALSE]

\* The ReauthFunc closure: which auth function it calls and with what.
NoFunc == [ver |-> "nil", endpoint |-> NoURL, opts |-> NoOpts, eo |-> EmptyEO]

V2OptsTypes == {"gophercloud", "tokens2"}

\* CanReauth of the builders; v2TokenNoReauth always answers false.
CanReauth(o) == IF o.wrapped THEN FALSE ELSE o.AllowReauth

v2TokenNoReauth(o) == [o EXCEPT !.wrapped = TRUE]

\* ------------------------------------------------------------------------
\* ProviderClient
\* ------------------------------------------------------------------------
NewClient_NoTokenLock(endpoint) ==
  [IdentityBase |-> NormalizeURL(BaseEndpoint(endpoint)),
   IdentityEndpoint |-> NormalizeURL(endpoint),
   TokenID |-> 0, authResult |-> NoResult,
   ReauthFunc |-> NoFunc, EndpointLocator |-> NoLocator,
   throwaway |-> FALSE, mut |-> FALSE]

NewClient(endpoint) ==
  [IdentityBase |-> NormalizeURL(BaseEndpoint(endpoint)),
   IdentityEndpoint |-> NormalizeURL(endpoint),
   TokenID |-> 0, authResult |-> NoResult,
   ReauthFunc |-> NoFunc, EndpointLocator |-> NoLocator,
   throwaway |-> FALSE, mut |-> TRUE]

\* ProviderClient.SetTokenAndAuthResult: token and result are written together;
\* a result whose token cannot be extracted changes nothing.
SetTokenAndAuthResult(client, r) ==
  IF r.err # "nil"
  THEN [client |-> client, err |-> r.err]
  ELSE [client |-> [client EXCEPT !.TokenID = r.token,
                                  !.authResult = [set |-> r.set, token |-> r.token,
                                                  catalog |-> r.catalog]],
        err |-> "nil"]

\* SetTokenAndAuthResult(nil)
ClearToken(client) == [client EXCEPT !.TokenID = 0, !.authResult = NoResult]

\* ProviderClient.SetToken: a bare token, no auth result.
SetToken(client, t) == [client EXCEPT !.TokenID = t, !.authResult = NoResult]

\* result.ExtractServiceCatalog
ExtractServiceCatalog(r) ==
  IF r.badcat THEN [catalog |-> << >>, err |-> "ErrCatalog"]
  ELSE [catalog |-> r.catalog, err |-> "nil"]

\* ------------------------------------------------------------------------
\* Endpoint resolution
\* ------------------------------------------------------------------------
RECURSIVE Matching(_, _)
Matching(catalog, eo) ==
  IF catalog = << >> THEN << >>
  ELSE LET e == Head(catalog)
           rest == Matching(Tail(catalog), eo)
       IN IF e.type = eo.Type /\ e.interface = eo.Availability
             /\ (eo.Region = "" \/ e.region = eo.Region)
          THEN << e >> \o rest ELSE rest

CatalogEndpoint_FirstMatch(catalog, eo) ==
  LET m == Matching(catalog, eo) IN
  IF Len(m) = 0 THEN [url |-> NoURL, err |-> "ErrEndpointNotFound"]
  ELSE [url |-> NormalizeURL(m[1].url), err |-> "nil"]

\* V2Endpoint / V3Endpoint over the captured catalog.
CatalogEndpoint(catalog, eo) ==
  LET m == Matching(catalog, eo) IN
  IF Len(m) = 0 THEN [url |-> NoURL, err |-> "ErrEndpointNotFound"]
  ELSE IF Len(m) > 1 THEN [url |-> NoURL, err |-> "ErrMultipleMatchingEndpoints"]
  ELSE [url |-> NormalizeURL(m[1].url), err |-> "nil"]

\* Calling client.EndpointLocator(ctx, eo).
Locate(locator, eo) == CatalogEndpoint(locator.catalog, eo)

\* ------------------------------------------------------------------------
\* Identity service answers
\* ------------------------------------------------------------------------
\* env: the outcome the service chooses for the one token request of a call
\* (out, catalog) and the number of tokens issued so far.  A refusal (bad
\* credentials, expired token) and a transport failure are both "neterr".

NoTokenResult(e) ==
  [err |-> e, set |-> FALSE, token |-> 0, catalog |-> << >>, badcat |-> FALSE]

\* tokens2.Create / tokens3.Create / ec2tokens.Create / oauth1.Create:
\* a fresh token with the catalog of the same answer.
TokensCreate(env) ==
  IF env.out = "neterr" THEN NoTokenResult("neterr")
  ELSE [err |-> "nil", set |-> TRUE, token |-> env.clock + 1, catalog |-> env.catalog,
        badcat |-> (env.out = "nocatalog")]

\* tokens3.Get: looks the given token up.
TokensGet(env, tokenID) ==
  IF env.out = "neterr" THEN NoTokenResult("neterr")
  ELSE [err |-> "nil", set |-> TRUE, token |-> tokenID, catalog |-> env.catalog,
        badcat |-> (env.out = "nocatalog")]

\* A request to the identity service; subject: the token a lookup is about.
Req(kind, api, url) == [kind |-> kind, api |-> api, url |-> url, subject |-> 0]

\* What v2auth/v3auth hand back to the model: the provider after the call,
\* the returned error, the requests sent, and the throw-away client captured
\* by a ReauthFunc installed by the call.
AuthRet(client, err, reqs, tac, newtac, result) ==
  [client |-> client, err |-> err, reqs |-> reqs, tac |-> tac, newtac |-> newtac,
   minted |-> (result.err = "nil" /\ reqs # << >> /\ reqs[Len(reqs)].kind = "create")]

\* ------------------------------------------------------------------------
\* Identity service clients
\* ------------------------------------------------------------------------
NewIdentityV2(client, eo) ==
  IF eo # EmptyEO
  THEN LET r == Locate(client.EndpointLocator, ApplyDefaults(eo, "identity"))
       IN [endpoint |-> r.url, err |-> r.err]
  ELSE [endpoint |-> WithSuffix(client.IdentityBase, v2), err |-> "nil"]

NewIdentityV3(client, eo) ==
  LET r == IF eo # EmptyEO
           THEN Locate(client.EndpointLocator, ApplyDefaults(eo, "identity"))
           ELSE [url |-> WithSuffix(client.IdentityBase, v3), err |-> "nil"]
  IN IF r.err # "nil" THEN [endpoint |-> NoURL, err |-> r.err]
     ELSE [endpoint |-> WithSuffix(NormalizeURL(BaseEndpoint(r.url)), v3), err |-> "nil"]

\* tac := *client; tac.SetThrowaway(true); tac.ReauthFunc = nil;
\* tac.SetTokenAndAuthResult(nil)
Throwaway(client) ==
  [ClearToken(client) EXCEPT !.throwaway = TRUE, !.ReauthFunc = NoFunc]

\* ------------------------------------------------------------------------
\* v2auth
\* ------------------------------------------------------------------------
v2auth(client, endpoint, options, eo, env) ==
  LET ic == NewIdentityV2(client, eo) IN
  IF ic.err # "nil"
  THEN AuthRet(client, ic.err, << >>, client, FALSE, NoTokenResult("none"))
  ELSE
    LET url == IF endpoint # NoURL THEN endpoint ELSE ic.endpoint
        result == TokensCreate(env)
        reqs == << Req("create", "tokens2", url) >>
        s == SetTokenAndAuthResult(client, result)
        cat == ExtractServiceCatalog(result)
    IN IF s.err # "nil" THEN AuthRet(client, s.err, reqs, client, FALSE, result)
       ELSE IF cat.err # "nil" THEN AuthRet(s.client, cat.err, reqs, client, FALSE, result)
       ELSE
         LET can == CanReauth(options)
             tac == Throwaway(s.client)
             c2 == IF can
                   THEN [s.client EXCEPT !.ReauthFunc =
                           [ver |-> v2, endpoint |-> endpoint,
                            opts |-> v2TokenNoReauth(options), eo |-> eo]]
                   ELSE s.client
             c3 == [c2 EXCEPT !.EndpointLocator =
                      [ver |-> v2, catalog |-> cat.catalog, token |-> result.token]]
         IN AuthRet(c3, "nil", reqs, tac, can, result)

\* ------------------------------------------------------------------------
\* v3auth
\* ------------------------------------------------------------------------
\* The copy of the options the v3 ReauthFunc authenticates with.
ThrowawayOpts(opts) ==
  IF opts.type \in {"gophercloud", "tokens3", "ec2tokens", "oauth1"}
  THEN [opts EXCEPT !.AllowReauth = FALSE]
  ELSE opts

v3install_NoLocator(client, catalog, endpoint, opts, eo, reqs, result) ==
  LET can == CanReauth(opts)
      tac == Throwaway(client)
      c2 == IF can
            THEN [client EXCEPT !.ReauthFunc =
                    [ver |-> v3, endpoint |-> endpoint,
                     opts |-> ThrowawayOpts(opts), eo |-> eo]]
            ELSE client
  IN AuthRet(c2, "nil", reqs, tac, can, result)

\* Lines 245-290: install ReauthFunc and EndpointLocator.
v3install(client, catalog, endpoint, opts, eo, reqs, result) ==
  LET can == CanReauth(opts)
      tac == Throwaway(client)
      c2 == IF can
            THEN [client EXCEPT !.ReauthFunc =
                    [ver |-> v3, endpoint |-> endpoint,
                     opts |-> ThrowawayOpts(opts), eo |-> eo]]
            ELSE client
      c3 == [c2 EXCEPT !.EndpointLocator = [ver |-> v3, catalog |-> catalog, token |-> result.token]]
  IN AuthRet(c3, "nil", reqs, tac, can, result)

v3auth_NoMisuseCheck(client, endpoint, opts, eo, env) ==
  LET ic == NewIdentityV3(client, eo)
      url == IF endpoint # NoURL THEN endpoint ELSE ic.endpoint
      result == TokensCreate(env)
      reqs == << Req("create", "tokens3", url) >>
      s == SetTokenAndAuthResult(client, result)
      cat == ExtractServiceCatalog(result)
  IN IF ic.err # "nil"
     THEN AuthRet(client, ic.err, << >>, client, FALSE, NoTokenResult("none"))
     ELSE IF s.err # "nil" THEN AuthRet(client, s.err, reqs, client, FALSE, result)
     ELSE IF cat.err # "nil" THEN AuthRet(s.client, cat.err, reqs, client, FALSE, result)
     ELSE v3install(s.client, cat.catalog, endpoint, opts, eo, reqs, result)

v3auth(client, endpoint, opts, eo, env) ==
  LET ic == NewIdentityV3(client, eo) IN
  IF ic.err # "nil"
  THEN AuthRet(client, ic.err, << >>, client, FALSE, NoTokenResult("none"))
  ELSE
    LET url == IF endpoint # NoURL THEN endpoint ELSE ic.endpoint
        typed == opts.type \in {"gophercloud", "tokens3"}
        tokenID == IF typed THEN opts.TokenID ELSE 0
        passthroughToken == IF typed THEN ~opts.scoped ELSE FALSE
    IN
    IF tokenID # 0 /\ passthroughToken
    THEN
      IF CanReauth(opts)
      THEN AuthRet(client, "ErrReauthWithPassthroughToken", << >>, client, FALSE,
                   NoTokenResult("none"))
      ELSE
        LET c1 == SetToken(client, tokenID)
            result == TokensGet(env, tokenID)
            reqs == << [Req("get", "tokens3", url) EXCEPT !.subject = tokenID] >>
            s == SetTokenAndAuthResult(c1, result)
            cat == ExtractServiceCatalog(result)
        IN IF result.err # "nil" THEN AuthRet(c1, result.err, reqs, client, FALSE, result)
           ELSE IF s.err # "nil" THEN AuthRet(c1, s.err, reqs, client, FALSE, result)
           ELSE IF cat.err # "nil" THEN AuthRet(s.client, cat.err, reqs, client, FALSE, result)
           ELSE v3install(s.client, cat.catalog, endpoint, opts, eo, reqs, result)
    ELSE
      LET api == IF opts.type = "ec2tokens" THEN "ec2tokens"
                 ELSE IF opts.type = "oauth1" THEN "oauth1" ELSE "tokens3"
          result == TokensCreate(env)
          reqs == << Req("create", api, url) >>
          s == SetTokenAndAuthResult(client, result)
          cat == ExtractServiceCatalog(result)
      IN IF s.err # "nil" THEN AuthRet(client, s.err, reqs, client, FALSE, result)
         ELSE IF cat.err # "nil" THEN AuthRet(s.client, cat.err, reqs, client, FALSE, result)
         ELSE v3install(s.client, cat.catalog, endpoint, opts, eo, reqs, result)

\* ------------------------------------------------------------------------
\* Version negotiation and Authenticate
\* ------------------------------------------------------------------------
Versions == << [ID |-> v2, Priority |-> 20, Suffix |-> v2],
               [ID |-> v3, Priority |-> 30, Suffix |-> v3] >>

NoVersion == [ID |-> "", Priority |-> 0, Suffix |-> ""]

\* The recognized versions the service advertises.
Supported(recognized, probe) ==
  { i \in 1..Len(recognized) : recognized[i].ID \in probe.supported }

\* utils.ChooseVersion: an already versioned identity endpoint is taken as it
\* is; otherwise the base is probed and the advertised recognized version of
\* highest priority is chosen, with the endpoint the service advertises for it.
ChooseVersion(client, recognized, probe) ==
  LET suffixed == { i \in 1..Len(recognized) :
                      client.IdentityEndpoint.ver = recognized[i].Suffix }
      discover == << Req("discover", "versions", client.IdentityBase) >>
      sup == Supported(recognized, probe)
  IN IF suffixed # {}
     THEN [chosen |-> recognized[CHOOSE i \in suffixed : TRUE],
           endpoint |-> client.IdentityEndpoint, err |-> "nil", reqs |-> << >>]
     ELSE IF ~probe.ok
     THEN [chosen |-> NoVersion, endpoint |-> NoURL, err |-> "neterr", reqs |-> discover]
     ELSE IF sup = {}
     THEN [chosen |-> NoVersion, endpoint |-> NoURL, err |-> "ErrNoSupportedVersion",
           reqs |-> discover]
     ELSE LET best == CHOOSE i \in sup :
                        \A j \in sup : recognized[j].Priority <= recognized[i].Priority
          IN [chosen |-> recognized[best], endpoint |-> URL("advertised", recognized[best].ID),
              err |-> "nil", reqs |-> discover]

\* The result of Authenticate: what the negotiation gave and requested, and
\* which of v2auth, v3auth ran (via).
WithNegotiation(cv, via, r) ==
  [r EXCEPT !.reqs = cv.reqs \o r.reqs]
    @@ [chosen |-> cv.chosen.ID, endpoint |-> cv.endpoint, via |-> via]

\* ProviderClient.CopyTokenFrom: the token and the auth result of other.
CopyTokenFrom(client, other) ==
  [client EXCEPT !.TokenID = other.TokenID, !.authResult = other.authResult]

Authenticate_SwappedSwitch(client, options, probe, env) ==
  LET cv == ChooseVersion(client, Versions, probe) IN
  IF cv.err # "nil"
  THEN WithNegotiation(cv, "", AuthRet(client, cv.err, << >>, client, FALSE,
                                       NoTokenResult("none")))
  ELSE IF cv.chosen.ID = v3
  THEN WithNegotiation(cv, v2, v2auth(client, cv.endpoint, options, EmptyEO, env))
  ELSE WithNegotiation(cv, v3, v3auth(client, cv.endpoint, options, EmptyEO, env))

Authenticate_IgnoredNegotiationError(client, options, probe, env) ==
  LET cv == ChooseVersion(client, Versions, probe) IN
  IF cv.chosen.ID = v2
  THEN WithNegotiation(cv, v2, v2auth(client, cv.endpoint, options, EmptyEO, env))
  ELSE WithNegotiation(cv, v3, v3auth(client, cv.endpoint, options, EmptyEO, env))

Authenticate(client, options, probe, env) ==
  LET cv == ChooseVersion(client, Versions, probe) IN
  IF cv.err # "nil"
  THEN WithNegotiation(cv, "", AuthRet(client, cv.err, << >>, client, FALSE,
                                       NoTokenResult("none")))
  ELSE IF cv.chosen.ID = v2
  THEN WithNegotiation(cv, v2, v2auth(client, cv.endpoint, options, EmptyEO, env))
  ELSE IF cv.chosen.ID = v3
  THEN WithNegotiation(cv, v3, v3auth(client, cv.endpoint, options, EmptyEO, env))
  ELSE WithNegotiation(cv, "", AuthRet(client, "ErrUnrecognizedVersion", << >>, client, FALSE,
                                       NoTokenResult("none")))

AuthenticateV2(client, options, eo, env) ==
  v2auth(client, NoURL, options, eo, env) @@ [chosen |-> "", endpoint |-> NoURL, via |-> v2]

AuthenticateV3(client, options, eo, env) ==
  v3auth(client, NoURL, options, eo, env) @@ [chosen |-> "", endpoint |-> NoURL, via |-> v3]

\* ------------------------------------------------------------------------
\* The reauthentication callback
\* ------------------------------------------------------------------------
\* The body of the ReauthFunc closure f up to its error check: a fresh
\* authentication through the throw-away client.  It touches only tac.
ReauthFunc_LocatorFirst(f, client, tacClient, env) ==
  LET r == IF f.ver = v2
           THEN v2auth(tacClient, f.endpoint, f.opts, f.eo, env)
           ELSE v3auth(tacClient, f.endpoint, f.opts, f.eo, env)
  IN [r |-> r, tac |-> r.client,
      client |-> IF r.err = "nil"
                 THEN [client EXCEPT !.EndpointLocator = r.client.EndpointLocator]
                 ELSE client]

ReauthFunc_CopiesBeforeCheck(f, client, tacClient, env) ==
  LET r == IF f.ver = v2
           THEN v2auth(tacClient, f.endpoint, f.opts, f.eo, env)
           ELSE v3auth(tacClient, f.endpoint, f.opts, f.eo, env)
  IN [r |-> r, tac |-> r.client, client |-> CopyTokenFrom(client, r.client)]

ReauthFunc(f, client, tacClient, env) ==
  LET r == IF f.ver = v2
           THEN v2auth(tacClient, f.endpoint, f.opts, f.eo, env)
           ELSE v3auth(tacClient, f.endpoint, f.opts, f.eo, env)
  IN [r |-> r, tac |-> r.client, client |-> client]

\* ------------------------------------------------------------------------
\* Service clients
\* ------------------------------------------------------------------------
NoServiceClient == [ProviderClient |-> FALSE, Endpoint |-> NoURL, Type |-> ""]

initClientOpts_NoConflictCheck(client, eo, clientType, version) ==
  LET eo1 == [ApplyDefaults(eo, clientType) EXCEPT !.Version = version]
      r == Locate(client.EndpointLocator, eo1)
  IN IF r.err # "nil"
     THEN [sc |-> NoServiceClient, err |-> r.err, located |-> << eo1 >>]
     ELSE [sc |-> [ProviderClient |-> TRUE, Endpoint |-> r.url, Type |-> clientType],
           err |-> "nil", located |-> << eo1 >>]

initClientOpts_IgnoresLocatorError(client, eo, clientType, version) ==
  LET eo0 == ApplyDefaults(eo, clientType) IN
  IF eo0.Version # 0 /\ eo0.Version # version
  THEN [sc |-> NoServiceClient, err |-> "ErrVersionConflict", located |-> << >>]
  ELSE
    LET eo1 == [eo0 EXCEPT !.Version = version]
        r == Locate(client.EndpointLocator, eo1)
    IN [sc |-> [ProviderClient |-> TRUE, Endpoint |-> r.url, Type |-> clientType],
        err |-> "nil", located |-> << eo1 >>]

initClientOpts(client, eo, clientType, version) ==
  LET eo0 == ApplyDefaults(eo, clientType) IN
  IF eo0.Version # 0 /\ eo0.Version # version
  THEN [sc |-> NoServiceClient, err |-> "ErrVersionConflict", located |-> << >>]
  ELSE
    LET eo1 == [eo0 EXCEPT !.Version = version]
        r == Locate(client.EndpointLocator, eo1)
    IN IF r.err # "nil"
       THEN [sc |-> NoServiceClient, err |-> r.err, located |-> << eo1 >>]
       ELSE [sc |-> [ProviderClient |-> TRUE, Endpoint |-> r.url, Type |-> clientType],
             err |-> "nil", located |-> << eo1 >>]

\* The constructors built on initClientOpts, by (service type, major version).
Constructors ==
  { [name |-> "NewComputeV2", type |-> "compute", version |-> 2],
    [name |-> "NewBlockStorageV3", type |-> "block-storage", version |-> 3] }

\* ------------------------------------------------------------------------
\* State
\* ------------------------------------------------------------------------
VARIABLES
  live,       \* the shared ProviderClient
  tac,        \* the throw-away client captured by live.ReauthFunc
  clock,      \* tokens issued so far (the last token issued)
  valid,      \* tokens the services still honour
  call,       \* the last top-level call: its inputs, its result, what it changed
  nauth,      \* Authenticate* calls made so far
  pc,         \* where each request goroutine is
  used,       \* the token each goroutine sent with its request
  hasReauth,  \* state.hasReauthenticated of each request
  rerr,       \* the error each request carries / returned
  sends,      \* times each request was put on the wire
  cycles,     \* times each request entered Reauthenticate
  ongoing,    \* reauthmut.ongoing: the goroutine whose reauthentication is in flight
  mutHolder,  \* the goroutine holding the token lock for writing
  entries,    \* endpoint resolution: the catalog the EndpointLocator captured
  want,       \* endpoint resolution: the EndpointOpts asked for
  first,      \* endpoint resolution: the first result, and the catalog it came from
  resolved,   \* endpoint resolution: the latest result
  subnetOpts, \* subnets: the CreateOpts / UpdateOpts of the call
  subnetReq   \* subnets: the request Create / Update put together

\* The provider, its callers and the identity service.
progVars == << live, tac, clock, valid, call, nauth, pc, used, hasReauth, rerr,
               sends, cycles, ongoing, mutHolder >>

\* Inputs and results of the calls that do not touch the provider's state:
\* a lookup in a catalog, building a subnets request.
pureVars == << entries, want, first, resolved, subnetOpts, subnetReq >>

vars == << live, tac, clock, valid, call, nauth, pc, used, hasReauth, rerr,
           sends, cycles, ongoing, mutHolder,
           entries, want, first, resolved, subnetOpts, subnetReq >>

reqVars == << pc, used, hasReauth, rerr, sends, cycles, ongoing, mutHolder >>

NoCall == [op |-> "", opts |-> NoOpts, eo |-> EmptyEO, err |-> "nil", reqs |-> << >>,
           changed |-> {}, chosen |-> "", endpoint |-> NoURL, via |-> "", probed |-> FALSE,
           supported |-> {}, located |-> << >>, sc |-> NoServiceClient, version |-> 0,
           answer |-> << >>]

\* The fields of the provider a call changed.
Changed(before, after) ==
  { f \in {"TokenID", "authResult", "ReauthFunc", "EndpointLocator"} : before[f] # after[f] }

\* No endpoint lookup under way.
Unresolved == [done |-> FALSE, url |-> NoURL, err |-> "nil", catalog |-> << >>]

NoLookup ==
  /\ entries = << >>
  /\ want = EmptyEO
  /\ first = Unresolved
  /\ resolved = Unresolved

\* No subnets call under way.
NoSubnetOpts == [kind |-> ""]

NoRequest == [sent |-> FALSE]

NoSubnetCall ==
  /\ subnetOpts = NoSubnetOpts
  /\ subnetReq = NoRequest

\* The identity endpoints a caller may hand to NewClient.
IdentityEndpoints ==
  { [host |-> "keystone", ver |-> v, slash |-> sl] : v \in {"", v2, v3}, sl \in BOOLEAN }

\* The tokens the caller holds from an earlier session (OS_TOKEN).
ExternalTokens == {1}

Init ==
  /\ \E endpoint \in IdentityEndpoints : live = NewClient(endpoint)
  /\ tac = NewClient(NoURL)
  /\ clock = Cardinality(ExternalTokens)
  /\ valid = ExternalTokens
  /\ call = NoCall
  /\ nauth = 0
  /\ pc = [t \in Threads |-> "idle"]
  /\ used = [t \in Threads |-> 0]
  /\ hasReauth = [t \in Threads |-> FALSE]
  /\ rerr = [t \in Threads |-> "nil"]
  /\ sends = [t \in Threads |-> 0]
  /\ cycles = [t \in Threads |-> 0]
  /\ ongoing = 0
  /\ mutHolder = 0
  /\ NoLookup
  /\ NoSubnetCall

\* ------------------------------------------------------------------------
\* Inputs
\* ------------------------------------------------------------------------
Opts(type, allow, tok, scoped) ==
  [type |-> type, AllowReauth |-> allow, TokenID |-> tok, scoped |-> scoped, wrapped |-> FALSE]

\* Password credentials (TokenID 0) or an external token, with or without a
\* scope, with or without AllowReauth.
GopherOpts ==
  { Opts("gophercloud", a, tk, sc) :
      a \in BOOLEAN, tk \in {0} \cup ExternalTokens, sc \in BOOLEAN }

\* Builders of each type v3auth tells apart; a type outside its switch
\* ("custom") with either answer of CanReauth.
V3Opts == { Opts(ty, a, tk, FALSE) :
              ty \in {"gophercloud", "tokens3"}, a \in BOOLEAN, tk \in ExternalTokens }
          \cup { Opts(ty, TRUE, 0, TRUE) : ty \in {"gophercloud", "ec2tokens", "oauth1"} }
          \cup { Opts("custom", a, 0, TRUE) : a \in BOOLEAN }

V2Opts == { Opts(ty, a, 0, TRUE) : ty \in V2OptsTypes, a \in BOOLEAN }

AuthEOs == { EmptyEO, [EmptyEO EXCEPT !.Availability = "internal"] }

ClientEOs == { [EmptyEO EXCEPT !.Version = v] : v \in 0..3 }

NoProbe == [ok |-> FALSE, supported |-> {}]

Probes == { NoProbe } \cup { [ok |-> TRUE, supported |-> s] : s \in SUBSET {v2, v3} }

\* What the identity service may answer to a token request.
Answers == { [out |-> "ok", catalog |-> CatalogA], [out |-> "ok", catalog |-> CatalogB],
             [out |-> "neterr", catalog |-> << >>], [out |-> "nocatalog", catalog |-> << >>] }

Env(a) == [out |-> a.out, catalog |-> a.catalog, clock |-> clock]

\* The service stops answering once MaxClock tokens exist.
CanAnswer(a) == a.out # "neterr" => clock < MaxClock

\* Authenticate* write ReauthFunc and EndpointLocator under no lock: callers
\* run them while no request is in flight on the provider.
Quiescent == ongoing = 0 /\ mutHolder = 0 /\ \A t \in Threads : pc[t] \in {"idle", "done"}

\* A nil EndpointLocator cannot be called (the call panics and returns
\* nothing); the calls of the model are the ones that return.
Callable(client, eo) == eo # EmptyEO => client.EndpointLocator # NoLocator

\* ------------------------------------------------------------------------
\* Top-level calls, one at a time
\* ------------------------------------------------------------------------
\* The catalog in the identity service's answer to the token request of a
\* call, when the call sent one.
Answer(reqs, a) ==
  IF \E i \in 1..Len(reqs) : reqs[i].kind \in {"create", "get"} THEN a.catalog ELSE << >>

Returned(op, options, eo, r, a) ==
  /\ live' = r.client
  /\ tac' = IF r.newtac THEN r.tac ELSE tac
  /\ clock' = IF r.minted THEN clock + 1 ELSE clock
  /\ valid' = IF r.minted THEN valid \cup {clock + 1} ELSE valid
  /\ call' = [NoCall EXCEPT !.op = op, !.opts = options, !.eo = eo, !.err = r.err,
                            !.reqs = r.reqs, !.changed = Changed(live, r.client),
                            !.chosen = r.chosen, !.endpoint = r.endpoint, !.via = r.via,
                            !.probed = r.probed, !.supported = r.supported,
                            !.answer = Answer(r.reqs, a)]
  /\ nauth' = nauth + 1
  /\ UNCHANGED reqVars
  /\ UNCHANGED pureVars

Unprobed == [probed |-> FALSE, supported |-> {}]

\* What the version probe of a call found, when it probed.
Probed(client, probe) ==
  LET cv == ChooseVersion(client, Versions, probe) IN
  IF cv.reqs = << >> THEN Unprobed
  ELSE [probed |-> TRUE, supported |-> IF probe.ok THEN probe.supported ELSE {}]

\* The answers the version probe of a call can get: drawn only when the call
\* probes.
ProbesOf(client) == IF Probed(client, NoProbe).probed THEN Probes ELSE { NoProbe }

DoAuthenticate ==
  \E options \in GopherOpts, probe \in ProbesOf(live), a \in Answers :
    /\ nauth < MaxAuths /\ CanAnswer(a)
    /\ Returned("Authenticate", options, EmptyEO,
                Authenticate(live, options, probe, Env(a)) @@ Probed(live, probe), a)

DoAuthenticateV2 ==
  \E options \in V2Opts, eo \in AuthEOs, a \in Answers :
    /\ nauth < MaxAuths /\ CanAnswer(a) /\ Callable(live, eo)
    /\ Returned("AuthenticateV2", options, eo,
                AuthenticateV2(live, options, eo, Env(a)) @@ Unprobed, a)

DoAuthenticateV3 ==
  \E options \in V3Opts, eo \in AuthEOs, a \in Answers :
    /\ nauth < MaxAuths /\ CanAnswer(a) /\ Callable(live, eo)
    /\ Returned("AuthenticateV3", options, eo,
                AuthenticateV3(live, options, eo, Env(a)) @@ Unprobed, a)

\* NewComputeV2 and the other constructors that return initClientOpts.
DoNewServiceClient ==
  \E ctor \in Constructors, eo \in ClientEOs :
    /\ live.EndpointLocator # NoLocator
    /\ LET r == initClientOpts(live, eo, ctor.type, ctor.version) IN
       call' = [NoCall EXCEPT !.op = ctor.name, !.eo = eo, !.err = r.err,
                              !.located = r.located, !.sc = r.sc, !.version = ctor.version]
    /\ UNCHANGED << live, tac, clock, valid, nauth >>
    /\ UNCHANGED reqVars
    /\ UNCHANGED pureVars

\* One whole invocation of the installed ReauthFunc by a single caller.
DoReauthFunc ==
  \E a \in Answers :
    /\ live.ReauthFunc # NoFunc /\ CanAnswer(a)
    /\ LET x == ReauthFunc(live.ReauthFunc, live, tac, Env(a))
           after == IF x.r.err = "nil" THEN CopyTokenFrom(x.client, x.tac) ELSE x.client
       IN /\ live' = after
          /\ tac' = x.tac
          /\ clock' = IF x.r.minted THEN clock + 1 ELSE clock
          /\ valid' = IF x.r.minted THEN valid \cup {clock + 1} ELSE valid
          /\ call' = [NoCall EXCEPT !.op = "ReauthFunc", !.opts = live.ReauthFunc.opts,
                                    !.eo = live.ReauthFunc.eo, !.err = x.r.err,
                                    !.reqs = x.r.reqs, !.changed = Changed(live, after),
                                    !.via = live.ReauthFunc.ver,
                                    !.answer = Answer(x.r.reqs, a)]
    /\ UNCHANGED nauth
    /\ UNCHANGED reqVars
    /\ UNCHANGED pureVars

\* A token the provider or a request in flight holds expires or is revoked.
Expire ==
  \E t \in valid \cap ({live.TokenID} \cup { used[w] : w \in Threads }) :
    /\ valid' = valid \ {t}
    /\ UNCHANGED << live, tac, clock, call, nauth >>
    /\ UNCHANGED reqVars
    /\ UNCHANGED pureVars

Next ==
  \/ DoAuthenticate
  \/ DoAuthenticateV2
  \/ DoAuthenticateV3
  \/ DoNewServiceClient
  \/ DoReauthFunc

Spec == Init /\ [][Next]_vars

\* ------------------------------------------------------------------------
\* Concurrent requests through the provider (ProviderClient.Request,
\* Reauthenticate, CopyTokenFrom)
\* ------------------------------------------------------------------------
\* The credentials of the session the goroutines share.
SessionOpts == { Opts("gophercloud", a, 0, TRUE) : a \in BOOLEAN }

\* The session is authenticated, once, before the goroutines start.
Login ==
  \E options \in SessionOpts, probe \in ProbesOf(live), a \in Answers :
    /\ Quiescent /\ nauth = 0 /\ CanAnswer(a)
    /\ \A t \in Threads : pc[t] = "idle"
    /\ LET r == Authenticate(live, options, probe, Env(a)) IN
       /\ live' = r.client
       /\ tac' = IF r.newtac THEN r.tac ELSE tac
       /\ clock' = IF r.minted THEN clock + 1 ELSE clock
       /\ valid' = IF r.minted THEN valid \cup {clock + 1} ELSE valid
    /\ nauth' = nauth + 1
    /\ UNCHANGED call
    /\ UNCHANGED reqVars
    /\ UNCHANGED pureVars

\* Reading the provider's token takes the token lock when there is one.
CanRead == live.mut => mutHolder = 0

\* A goroutine puts a request on the wire with the provider's current token.
Send(t) ==
  /\ pc[t] = "idle" /\ live.TokenID # 0 /\ CanRead
  /\ pc' = [pc EXCEPT ![t] = "sent"]
  /\ used' = [used EXCEPT ![t] = live.TokenID]
  /\ sends' = [sends EXCEPT ![t] = @ + 1]
  /\ UNCHANGED << live, tac, clock, valid, call, nauth, hasReauth, rerr, cycles, ongoing,
                  mutHolder >>
  /\ UNCHANGED pureVars

\* The service accepts the token.
RespondOK(t) ==
  /\ pc[t] = "sent" /\ used[t] \in valid
  /\ pc' = [pc EXCEPT ![t] = "done"]
  /\ rerr' = [rerr EXCEPT ![t] = "nil"]
  /\ UNCHANGED << live, tac, clock, valid, call, nauth, used, hasReauth, sends, cycles,
                  ongoing, mutHolder >>
  /\ UNCHANGED pureVars

\* A transport or HTTP error other than 401 goes to the caller as it is.
RespondError(t) ==
  /\ pc[t] = "sent"
  /\ pc' = [pc EXCEPT ![t] = "done"]
  /\ rerr' = [rerr EXCEPT ![t] = "neterr"]
  /\ UNCHANGED << live, tac, clock, valid, call, nauth, used, hasReauth, sends, cycles,
                  ongoing, mutHolder >>
  /\ UNCHANGED pureVars

Respond401_ReauthenticatesAgain(t) ==
  /\ pc[t] = "sent" /\ used[t] \notin valid
  /\ IF live.ReauthFunc # NoFunc
     THEN /\ pc' = [pc EXCEPT ![t] = "reauth"]
          /\ UNCHANGED rerr
     ELSE /\ pc' = [pc EXCEPT ![t] = "done"]
          /\ rerr' = [rerr EXCEPT ![t] = "401"]
  /\ UNCHANGED << live, tac, clock, valid, call, nauth, used, hasReauth, sends, cycles,
                  ongoing, mutHolder >>
  /\ UNCHANGED pureVars

\* 401: the token has expired.  With a ReauthFunc and no reauthentication yet
\* for this request, reauthenticate; otherwise the 401 is the result.
Respond401(t) ==
  /\ pc[t] = "sent" /\ used[t] \notin valid
  /\ IF live.ReauthFunc # NoFunc /\ ~hasReauth[t]
     THEN /\ pc' = [pc EXCEPT ![t] = "reauth"]
          /\ UNCHANGED rerr
     ELSE /\ pc' = [pc EXCEPT ![t] = "done"]
          /\ rerr' = [rerr EXCEPT ![t] = "401"]
  /\ UNCHANGED << live, tac, clock, valid, call, nauth, used, hasReauth, sends, cycles,
                  ongoing, mutHolder >>
  /\ UNCHANGED pureVars

\* Reauthenticate, entry.  With the reauth lock: wait when a reauthentication
\* is in flight, else become the one in flight, and call ReauthFunc only if
\* the provider still holds the token the request failed with.  Without the
\* lock ReauthFunc is called directly.
EnterReauth(t) ==
  /\ pc[t] = "reauth"
  /\ cycles' = [cycles EXCEPT ![t] = @ + 1]
  /\ IF ~live.mut
     THEN /\ pc' = [pc EXCEPT ![t] = "exchange"]
          /\ UNCHANGED ongoing
     ELSE IF ongoing # 0
     THEN /\ pc' = [pc EXCEPT ![t] = "wait"]
          /\ UNCHANGED ongoing
     ELSE /\ CanRead
          /\ ongoing' = t
          /\ pc' = [pc EXCEPT ![t] = IF live.TokenID = used[t] THEN "exchange" ELSE "finish"]
  /\ UNCHANGED << live, tac, clock, valid, call, nauth, used, hasReauth, rerr, sends,
                  mutHolder >>
  /\ UNCHANGED pureVars

\* ReauthFunc, the fresh authentication through the throw-away client.
ReauthExchange(t) ==
  \E a \in Answers :
    /\ pc[t] = "exchange" /\ CanAnswer(a)
    /\ LET x == ReauthFunc(live.ReauthFunc, live, tac, Env(a)) IN
       /\ tac' = x.tac
       /\ live' = x.client
       /\ clock' = IF x.r.minted THEN clock + 1 ELSE clock
       /\ valid' = IF x.r.minted THEN valid \cup {clock + 1} ELSE valid
       /\ rerr' = [rerr EXCEPT ![t] = x.r.err]
       /\ pc' = [pc EXCEPT ![t] = IF x.r.err = "nil" THEN "copy" ELSE "finish"]
    /\ UNCHANGED << call, nauth, used, hasReauth, sends, cycles, ongoing, mutHolder >>
    /\ UNCHANGED pureVars

\* ReauthFunc, client.CopyTokenFrom(&tac): takes the token lock and writes the
\* token ...
CopyTokenID(t) ==
  /\ pc[t] = "copy" /\ CanRead
  /\ mutHolder' = IF live.mut THEN t ELSE mutHolder
  /\ live' = [live EXCEPT !.TokenID = CopyTokenFrom(live, tac).TokenID]
  /\ pc' = [pc EXCEPT ![t] = "copy2"]
  /\ UNCHANGED << tac, clock, valid, call, nauth, used, hasReauth, rerr, sends, cycles,
                  ongoing >>
  /\ UNCHANGED pureVars

\* ... then the auth result, and releases the lock.
CopyAuthResult(t) ==
  /\ pc[t] = "copy2"
  /\ live' = CopyTokenFrom(live, tac)
  /\ mutHolder' = IF live.mut THEN 0 ELSE mutHolder
  /\ pc' = [pc EXCEPT ![t] = "finish"]
  /\ UNCHANGED << tac, clock, valid, call, nauth, used, hasReauth, rerr, sends, cycles,
                  ongoing >>
  /\ UNCHANGED pureVars

\* Where a request goes after Reauthenticate returned e: to its one retry, or
\* back to the caller with the error.
After(e) == IF e = "nil" THEN "retry" ELSE "done"

\* Reauthenticate, exit: the in-flight mark is cleared and the goroutines
\* waiting on it get its result.
FinishReauth(t) ==
  /\ pc[t] = "finish"
  /\ LET woken == IF live.mut THEN { w \in Threads : pc[w] = "wait" } ELSE {} IN
     /\ pc' = [w \in Threads |-> IF w = t \/ w \in woken THEN After(rerr[t]) ELSE pc[w]]
     /\ rerr' = [w \in Threads |-> IF w \in woken THEN rerr[t] ELSE rerr[w]]
  /\ ongoing' = IF live.mut THEN 0 ELSE ongoing
  /\ UNCHANGED << live, tac, clock, valid, call, nauth, used, hasReauth, sends, cycles,
                  mutHolder >>
  /\ UNCHANGED pureVars

\* The one retry, with the token the provider holds now.
Retry(t) ==
  /\ pc[t] = "retry" /\ CanRead
  /\ hasReauth' = [hasReauth EXCEPT ![t] = TRUE]
  /\ used' = [used EXCEPT ![t] = live.TokenID]
  /\ sends' = [sends EXCEPT ![t] = @ + 1]
  /\ pc' = [pc EXCEPT ![t] = "sent"]
  /\ UNCHANGED << live, tac, clock, valid, call, nauth, rerr, cycles, ongoing, mutHolder >>
  /\ UNCHANGED pureVars

NextConc ==
  \/ Login
  \/ Expire
  \/ \E t \in Threads : Send(t)
  \/ \E t \in Threads : RespondOK(t)
  \/ \E t \in Threads : RespondError(t)
  \/ \E t \in Threads : Respond401(t)
  \/ \E t \in Threads : EnterReauth(t)
  \/ \E t \in Threads : ReauthExchange(t)
  \/ \E t \in Threads : CopyTokenID(t)
  \/ \E t \in Threads : CopyAuthResult(t)
  \/ \E t \in Threads : FinishReauth(t)
  \/ \E t \in Threads : Retry(t)

SpecConc == Init /\ [][NextConc]_vars

\* ------------------------------------------------------------------------
\* Endpoint lookups in a catalog (the EndpointLocator closure on its own)
\* ------------------------------------------------------------------------
\* The provider before any call; the lookups and the subnets requests below
\* run beside it and leave it alone.
ProviderIdle ==
  /\ live = NewClient(URL("keystone", v3))
  /\ tac = NewClient(NoURL)
  /\ clock = Cardinality(ExternalTokens)
  /\ valid = ExternalTokens
  /\ call = NoCall
  /\ nauth = 0
  /\ pc = [t \in Threads |-> "idle"]
  /\ used = [t \in Threads |-> 0]
  /\ hasReauth = [t \in Threads |-> FALSE]
  /\ rerr = [t \in Threads |-> "nil"]
  /\ sends = [t \in Threads |-> 0]
  /\ cycles = [t \in Threads |-> 0]
  /\ ongoing = 0
  /\ mutHolder = 0

\* Entries a catalog may hold: two regions and two interfaces of compute, a
\* second public compute endpoint in r1, and identity.
EntryPool ==
  { Entry("compute", "r1", "public", "compute-r1"),
    Entry("compute", "r1", "public", "compute-r1-bis"),
    Entry("compute", "r2", "public", "compute-r2"),
    Entry("compute", "r1", "internal", "compute-r1-int"),
    Entry("identity", "r1", "public", "identity-r1") }

\* Catalogs of up to MaxEntries different entries, in every order.
OrderedCatalogs ==
  UNION { { c \in [1..n -> EntryPool] : \A i, j \in 1..n : i # j => c[i] # c[j] } :
          n \in 0..MaxEntries }

\* The (type, region, interface) a caller asks for.
Lookups ==
  { [Type |-> t, Region |-> r, Availability |-> a, Version |-> 0] :
      t \in {"compute", "identity"}, r \in {"", "r1", "r2"}, a \in {"public", "internal"} }

InitLookup ==
  /\ ProviderIdle
  /\ NoSubnetCall
  /\ entries \in OrderedCatalogs
  /\ want \in Lookups
  /\ first = Unresolved
  /\ resolved = Unresolved

\* The EndpointLocator installed by v2auth / v3auth over a catalog.
LocatorOver(catalog) == [ver |-> v3, catalog |-> catalog, token |-> 0]

\* The caller resolves the endpoint through the EndpointLocator.
ResolveEndpoint ==
  /\ ~resolved.done
  /\ LET r == Locate(LocatorOver(entries), want)
         res == [done |-> TRUE, url |-> r.url, err |-> r.err, catalog |-> entries]
     IN /\ resolved' = res
        /\ first' = IF first.done THEN first ELSE res
  /\ UNCHANGED << entries, want, subnetOpts, subnetReq >>
  /\ UNCHANGED progVars

\* A later authentication returns the same catalog with two neighbouring
\* entries the other way round; the endpoint has to be resolved again.
Reorder ==
  \E i \in 1..(Len(entries) - 1) :
    /\ first.done
    /\ entries' = [k \in 1..Len(entries) |->
                     IF k = i THEN entries[i + 1]
                     ELSE IF k = i + 1 THEN entries[i] ELSE entries[k]]
    /\ resolved' = Unresolved
    /\ UNCHANGED << want, first, subnetOpts, subnetReq >>
    /\ UNCHANGED progVars

NextLookup ==
  \/ ResolveEndpoint
  \/ Reorder

SpecLookup == InitLookup /\ [][NextLookup]_vars

\* ------------------------------------------------------------------------
\* subnets: the requests Create and Update put together
\* (openstack/networking/v2/subnets/requests.go)
\* ------------------------------------------------------------------------
\* A Go pointer: nil, or pointing to a value.
NilString == [set |-> FALSE, val |-> ""]
NilInt == [set |-> FALSE, val |-> 0]
Ptr(x) == [set |-> TRUE, val |-> x]

\* JSON values of a request body.
JString(x) == [json |-> "string", s |-> x]
JNull == [json |-> "null", s |-> ""]

\* A map[string]any from a set of (key, value) pairs with distinct keys.
MapOf(pairs) ==
  [k \in { p[1] : p \in pairs } |-> (CHOOSE p \in pairs : p[1] = k)[2]]

EmptyMap == MapOf({})

\* strconv.FormatInt(n, 10): the decimal digits of n, most significant first.
DigitChars == << "0", "1", "2", "3", "4", "5", "6", "7", "8", "9" >>

RECURSIVE FormatNat(_)
FormatNat(n) ==
  IF n < 10 THEN << DigitChars[n + 1] >>
  ELSE FormatNat(n \div 10) \o << DigitChars[(n % 10) + 1] >>

FormatInt(n) == IF n < 0 THEN << "-" >> \o FormatNat(0 - n) ELSE FormatNat(n)

\* gophercloud.BuildRequestBody(opts, "subnet"): a field tagged required must
\* be set; the struct is marshalled to JSON by its json tags (omitempty drops
\* an empty string and a nil pointer, "-" drops the field) and read back as
\* a map.
BuildRequestBody(o) ==
  IF o.kind = "CreateOpts"
  THEN IF o.NetworkID = ""
       THEN [err |-> "ErrMissingInput", body |-> EmptyMap]
       ELSE [err |-> "nil",
             body |-> MapOf({ << "network_id", JString(o.NetworkID) >> }
                            \cup (IF o.Name # "" THEN { << "name", JString(o.Name) >> }
                                  ELSE {})
                            \cup (IF o.GatewayIP.set
                                  THEN { << "gateway_ip", JString(o.GatewayIP.val) >> }
                                  ELSE {}))]
  ELSE [err |-> "nil",
        body |-> MapOf((IF o.Name.set THEN { << "name", JString(o.Name.val) >> } ELSE {})
                       \cup (IF o.GatewayIP.set
                             THEN { << "gateway_ip", JString(o.GatewayIP.val) >> }
                             ELSE {}))]

\* if m := b["subnet"]; m["gateway_ip"] == "" { m["gateway_ip"] = nil }
\* A missing key reads as nil, which is not "".
NullEmptyGateway(m) ==
  IF "gateway_ip" \in DOMAIN m /\ m["gateway_ip"] = JString("")
  THEN [m EXCEPT !["gateway_ip"] = JNull]
  ELSE m

ToSubnetCreateMap_KeepsEmptyGateway(o) == BuildRequestBody(o)

ToSubnetCreateMap(o) ==
  LET b == BuildRequestBody(o) IN
  IF b.err # "nil" THEN b ELSE [err |-> "nil", body |-> NullEmptyGateway(b.body)]

ToSubnetUpdateMap(o) ==
  LET b == BuildRequestBody(o) IN
  IF b.err # "nil" THEN b ELSE [err |-> "nil", body |-> NullEmptyGateway(b.body)]

\* gophercloud.BuildHeaders(opts): every field with an h tag that is set
\* becomes a header of that name, an int formatted in decimal.
BuildHeaders(o) ==
  IF o.kind = "UpdateOpts" /\ o.RevisionNumber.set
  THEN MapOf({ << "If-Match", FormatInt(o.RevisionNumber.val) >> })
  ELSE EmptyMap

\* fmt.Sprintf("revision_number=%s", x)
Sprintf(x) == << "revision_number=" >> \o x

Request(method, b, h) ==
  [sent |-> TRUE, method |-> method, body |-> b, headers |-> h, err |-> "nil"]

Failed(e) == [sent |-> FALSE, method |-> "", body |-> EmptyMap, headers |-> EmptyMap, err |-> e]

Create(o) ==
  LET b == ToSubnetCreateMap(o) IN
  IF b.err # "nil" THEN Failed(b.err) ELSE Request("POST", b.body, EmptyMap)

Update_RawIfMatch(o) ==
  LET b == ToSubnetUpdateMap(o) IN
  IF b.err # "nil" THEN Failed(b.err) ELSE Request("PUT", b.body, BuildHeaders(o))

Update(o) ==
  LET b == ToSubnetUpdateMap(o)
      h == BuildHeaders(o)
  IN IF b.err # "nil" THEN Failed(b.err)
     ELSE Request("PUT", b.body,
                  [k \in DOMAIN h |-> IF k = "If-Match" THEN Sprintf(h[k]) ELSE h[k]])

\* Inputs.
StringPtrs(vals) == { NilString } \cup { Ptr(x) : x \in vals }

RevisionNumbers == (0 - 1)..MaxRevision

CreateOptsSet ==
  { [kind |-> "CreateOpts", NetworkID |-> n, Name |-> nm, GatewayIP |-> g] :
      n \in {"", "net-1"}, nm \in {"", "sub-1"}, g \in StringPtrs({"", "10.0.0.1"}) }

UpdateOptsSet ==
  { [kind |-> "UpdateOpts", Name |-> nm, GatewayIP |-> g, RevisionNumber |-> r] :
      nm \in StringPtrs({"", "sub-1"}), g \in StringPtrs({"", "10.0.0.1"}),
      r \in { NilInt } \cup { Ptr(n) : n \in RevisionNumbers } }

InitSubnets ==
  /\ ProviderIdle
  /\ NoLookup
  /\ subnetOpts \in CreateOptsSet \cup UpdateOptsSet
  /\ subnetReq = NoRequest

DoCreate ==
  /\ subnetOpts.kind = "CreateOpts" /\ subnetReq = NoRequest
  /\ subnetReq' = Create(subnetOpts)
  /\ UNCHANGED << subnetOpts, entries, want, first, resolved >>
  /\ UNCHANGED progVars

DoUpdate ==
  /\ subnetOpts.kind = "UpdateOpts" /\ subnetReq = NoRequest
  /\ subnetReq' = Update(subnetOpts)
  /\ UNCHANGED << subnetOpts, entries, want, first, resolved >>
  /\ UNCHANGED progVars

NextSubnets ==
  \/ DoCreate
  \/ DoUpdate

SpecSubnets == InitSubnets /\ [][NextSubnets]_vars

\* ------------------------------------------------------------------------
\* Properties
\* ------------------------------------------------------------------------
IsTokenRequest(r) == r.kind \in {"create", "get"}

TokenRequests(reqs) == { i \in 1..Len(reqs) : IsTokenRequest(reqs[i]) }

\* The last call ran v3auth.
ViaV3 == call.op \in {"Authenticate", "AuthenticateV3"} /\ call.via = v3

\* Its options carry a token ID and no scope, and ask for reauthentication.
PassthroughWithReauth ==
  /\ call.opts.type \in {"gophercloud", "tokens3"}
  /\ call.opts.TokenID # 0 /\ ~call.opts.scoped
  /\ CanReauth(call.opts)

\* The call left token, ReauthFunc and EndpointLocator as they were.
ProviderUntouched == call.changed \cap {"TokenID", "ReauthFunc", "EndpointLocator"} = {}

\* C1 as stated: v3 authentication with a token ID, no scope and CanReauth()
\* true is rejected before any network call to the identity service, and
\* leaves the provider's token, ReauthFunc and EndpointLocator unchanged.
C1_RejectedBeforeAnyNetworkCall ==
  (ViaV3 /\ PassthroughWithReauth)
    => (call.err # "nil" /\ call.reqs = << >> /\ ProviderUntouched)

\* C1 amended: such a call is rejected with an error before any token request
\* (creation or lookup) is sent: AuthenticateV3 sends nothing at all,
\* Authenticate has sent at most its version-discovery probe; the provider's
\* token, ReauthFunc and EndpointLocator are unchanged.
C1_RejectedBeforeAnyTokenRequest ==
  (ViaV3 /\ PassthroughWithReauth)
    => /\ call.err # "nil"
       /\ TokenRequests(call.reqs) = {}
       /\ call.op = "AuthenticateV3" => call.reqs = << >>
       /\ call.op = "Authenticate" => Len(call.reqs) = (IF call.probed THEN 1 ELSE 0)
       /\ ProviderUntouched

\* The misuse reached v3auth through Authenticate after a version probe.
C1_Witness ==
  /\ call.op = "Authenticate" /\ ViaV3 /\ PassthroughWithReauth
  /\ call.probed /\ call.err = "ErrReauthWithPassthroughToken"

\* The requests of the last call that v3auth or v2auth sent: all but the
\* discovery probe of Authenticate's negotiation.
AuthRequests == IF call.probed THEN Tail(call.reqs) ELSE call.reqs

\* The last call ran v3auth with a token ID, no scope and CanReauth() false.
PassthroughNoReauth ==
  /\ ViaV3 /\ call.opts.type \in {"gophercloud", "tokens3"}
  /\ call.opts.TokenID # 0 /\ ~call.opts.scoped
  /\ ~CanReauth(call.opts)

\* C11: in v3 authentication with a token ID, no scope and CanReauth() false,
\* v3auth sends no token-creation request: the only request it sends is the
\* lookup of that token (one request when the call succeeds, none when the
\* identity client could not be built); the call installs no ReauthFunc.
C11_PassthroughLooksUpOnly ==
  PassthroughNoReauth
    => /\ Len(AuthRequests) <= 1
       /\ \A i \in 1..Len(AuthRequests) :
            /\ AuthRequests[i].kind = "get"
            /\ AuthRequests[i].subject = call.opts.TokenID
       /\ call.err = "nil" => Len(AuthRequests) = 1
       /\ "ReauthFunc" \notin call.changed
       /\ call.err = "nil" => live.TokenID = call.opts.TokenID

\* A passthrough through AuthenticateV3 that succeeded.
C11_Witness ==
  /\ PassthroughNoReauth /\ call.op = "AuthenticateV3" /\ call.err = "nil"
  /\ Len(call.reqs) = 1 /\ call.reqs[1].kind = "get"
  /\ live.TokenID = call.opts.TokenID /\ live.ReauthFunc = NoFunc

\* The last call was an Authenticate* call that exchanged credentials for a
\* fresh token and returned nil.
FreshExchange ==
  /\ call.op \in {"Authenticate", "AuthenticateV2", "AuthenticateV3"}
  /\ call.err = "nil"
  /\ \E i \in 1..Len(AuthRequests) : AuthRequests[i].kind = "create"

\* C12: after a successful fresh credential exchange the provider holds the
\* token the identity service returned (the last one issued) and its
\* EndpointLocator resolves against the catalog of that same answer.
C12_FreshExchangeStoresTokenAndCatalog ==
  FreshExchange
    => /\ live.TokenID = clock
       /\ live.authResult = [set |-> TRUE, token |-> clock, catalog |-> call.answer]
       /\ live.EndpointLocator = [ver |-> call.via, catalog |-> call.answer, token |-> clock]

\* A fresh exchange through v3auth whose answer carried the second catalog.
C12_Witness ==
  /\ FreshExchange /\ call.via = v3 /\ call.answer = CatalogB
  /\ live.TokenID = clock /\ live.EndpointLocator.catalog = CatalogB

\* C2: after a successful invocation of the installed ReauthFunc the live
\* provider holds the new token and its EndpointLocator resolves against the
\* catalog of that latest authentication.
C2_LocatorUsesLatestCatalog ==
  (call.op = "ReauthFunc" /\ call.err = "nil")
    => /\ live.TokenID = tac.TokenID
       /\ live.authResult = tac.authResult
       /\ live.EndpointLocator.catalog = tac.authResult.catalog

\* Goroutines inside Reauthenticate, holding the in-flight mark.
InFlight == { t \in Threads : pc[t] \in {"exchange", "copy", "copy2", "finish"} }

\* C3: the live provider never exposes a token together with a catalog of a
\* later authentication: the catalog its EndpointLocator resolves against, and
\* the catalog of the auth result a reader can get, come from an answer that
\* is not newer than its token (tokens are numbered in order of issue).
C3_NoStaleTokenWithNewCatalog ==
  /\ live.EndpointLocator.token <= live.TokenID
  /\ (CanRead /\ live.authResult.set) => live.authResult.token <= live.TokenID

\* A reauthentication has fetched a new token with a different catalog and
\* has not yet copied it to the live provider.
C3_Witness ==
  \E t \in Threads :
    /\ pc[t] = "copy"
    /\ tac.TokenID > live.TokenID
    /\ tac.authResult.catalog # live.EndpointLocator.catalog

\* C4: a provider has one authoritative token and reauthentication replaces
\* it atomically: whenever a caller can read the provider, the token is the
\* token of its auth result, and no request ever read a cleared token.
C4_TokenNeverHalfUpdated ==
  /\ CanRead => (live.authResult.set => live.authResult.token = live.TokenID)
  /\ \A t \in Threads : pc[t] # "idle" => (used[t] # 0 /\ live.TokenID # 0)

\* CopyTokenFrom is half way (new token, old auth result) while another
\* goroutine is about to read the token for its request.
C4_Witness ==
  \E t, u \in Threads :
    /\ pc[t] = "copy2" /\ mutHolder = t
    /\ live.authResult.token # live.TokenID
    /\ pc[u] = "idle"

\* C5: at most one reauthentication is in flight per provider, and a request
\* that fails on token expiry meanwhile waits for it instead of starting one.
C5_SingleInFlightReauth ==
  /\ Cardinality(InFlight) <= 1
  /\ InFlight # {} => InFlight = {ongoing}
  /\ \A t \in Threads : pc[t] = "wait" => (ongoing # 0 /\ ongoing # t /\ ongoing \in InFlight)

\* One goroutine waits while another one reauthenticates.
C5_Witness ==
  \E t, u \in Threads : pc[t] = "wait" /\ pc[u] = "exchange"

\* C6: the throw-away client never has a ReauthFunc, before or after an
\* invocation of the callback, for every type of auth options, and one
\* invocation makes one authentication attempt.
C6_ThrowawayNeverReauthenticates ==
  /\ tac.ReauthFunc = NoFunc
  /\ call.op = "ReauthFunc" => Len(call.reqs) <= 1

\* C7: a request goes through at most one reauthentication and one retry;
\* after a failed reauthentication or a failed retry it is back at the caller
\* with the error.
C7_AtMostOneReauthAndRetry ==
  \A t \in Threads :
    /\ cycles[t] <= 1
    /\ sends[t] <= 1 + cycles[t]
    /\ pc[t] \in {"reauth", "wait", "exchange", "copy", "copy2", "finish"}
         => (~hasReauth[t] /\ sends[t] = 1)
    /\ (hasReauth[t] /\ pc[t] # "sent") => pc[t] = "done"

\* A retry after a reauthentication failed with 401 and went to the caller.
C7_Witness ==
  \E t \in Threads :
    pc[t] = "done" /\ hasReauth[t] /\ rerr[t] = "401" /\ sends[t] = 2 /\ cycles[t] = 1

\* The identity endpoint supports v3: it is a v3 URL, or the probe found v3.
SupportsV3 ==
  \/ live.IdentityEndpoint.ver = v3
  \/ call.probed /\ v3 \in call.supported

\* C8: Authenticate takes the v3 path whenever the endpoint supports v3, the
\* v2 path only when v2 is the chosen version, and sends its token request to
\* the endpoint the negotiation returned.
C8_HighestVersionAndItsEndpoint ==
  (call.op = "Authenticate" /\ call.chosen # "")
    => /\ SupportsV3 => call.via = v3
       /\ call.via = v2 <=> call.chosen = v2
       /\ call.via = v3 <=> call.chosen = v3
       /\ \A i \in TokenRequests(call.reqs) : call.reqs[i].url = call.endpoint

\* The probe found both versions and the token was created at the advertised
\* v3 endpoint.
C8_Witness ==
  /\ call.op = "Authenticate" /\ call.probed /\ call.supported = {v2, v3}
  /\ call.via = v3 /\ call.err = "nil"
  /\ \E i \in TokenRequests(call.reqs) : call.reqs[i].url = URL("advertised", v3)

\* C9: when the negotiation fails Authenticate returns the error at once: no
\* token request, no second probe, provider unchanged.
C9_NegotiationFailureIsFatal ==
  (call.op = "Authenticate" /\ call.chosen = "")
    => /\ call.err # "nil"
       /\ TokenRequests(call.reqs) = {}
       /\ Len(call.reqs) <= 1
       /\ call.changed = {}

\* The probe answered and advertised no recognized version.
C9_Witness ==
  /\ call.op = "Authenticate" /\ call.chosen = ""
  /\ call.probed /\ call.err = "ErrNoSupportedVersion"

IsConstructorCall == \E c \in Constructors : call.op = c.name

VersionConflict == call.eo.Version # 0 /\ call.eo.Version # call.version

\* C10: a constructor built on initClientOpts returns the conflict error
\* without calling the EndpointLocator when EndpointOpts.Version is non-zero
\* and not its major version; otherwise it calls the EndpointLocator once,
\* with Version set to its major version.
C10_VersionConflictBeforeLocator ==
  IsConstructorCall
    => /\ VersionConflict => (call.err = "ErrVersionConflict" /\ call.located = << >>)
       /\ ~VersionConflict => (Len(call.located) = 1
                               /\ call.located[1].Version = call.version)

\* A constructor was called with another major version than its own.
C10_Witness ==
  IsConstructorCall /\ VersionConflict /\ call.err = "ErrVersionConflict"

\* C13: endpoint resolution through the EndpointLocator does not depend on
\* the order of the catalog: whatever order of the same entries the lookup
\* runs over, it gives the URL, or the error, the first lookup gave.
C13_ResolutionIgnoresCatalogOrder ==
  resolved.done => (resolved.url = first.url /\ resolved.err = first.err)

\* A lookup that found its endpoint in a catalog of three entries held in
\* another order than at the first lookup.
C13_Witness ==
  /\ resolved.done /\ first.done /\ entries # first.catalog
  /\ Len(entries) = 3 /\ resolved.err = "nil" /\ resolved.url # NoURL
  /\ entries[1].type = want.Type /\ entries[1].url # resolved.url

\* The entries of the provider's cached catalog that match the EndpointOpts
\* the last constructor call handed to the EndpointLocator.
CachedMatches ==
  LET cat == live.EndpointLocator.catalog
      eo == call.located[1]
  IN { i \in 1..Len(cat) :
         /\ cat[i].type = eo.Type
         /\ cat[i].interface = eo.Availability
         /\ (eo.Region = "" \/ cat[i].region = eo.Region) }

\* C14: when no entry, or more than one entry, of the cached catalog matches
\* the requested type, region and interface, the constructor returns a
\* resolution error, which is not the transport error, and no endpoint URL.
C14_NoOrAmbiguousMatchIsAnError ==
  (IsConstructorCall /\ call.located # << >> /\ Cardinality(CachedMatches) # 1)
    => /\ call.err = (IF CachedMatches = {} THEN "ErrEndpointNotFound"
                                          ELSE "ErrMultipleMatchingEndpoints")
       /\ call.err \notin {"nil", "neterr"}
       /\ call.sc = NoServiceClient

\* NewComputeV2 over a catalog with compute endpoints in two regions, no
\* region asked for.
C14_Witness ==
  /\ call.op = "NewComputeV2" /\ call.located # << >>
  /\ Cardinality(CachedMatches) = 2
  /\ call.err = "ErrMultipleMatchingEndpoints"

\* The number a sequence of decimal digits stands for (-1: not digits).
DigitValue(c) == CHOOSE d \in 0..9 : DigitChars[d + 1] = c

IsDigits(x) == x # << >> /\ \A i \in 1..Len(x) : \E d \in 0..9 : DigitChars[d + 1] = x[i]

RECURSIVE DecimalValue(_)
DecimalValue(x) ==
  IF Len(x) = 1 THEN DigitValue(x[1])
  ELSE 10 * DecimalValue(SubSeq(x, 1, Len(x) - 1)) + DigitValue(x[Len(x)])

\* x is "revision_number=" followed by n in decimal.
IsRevisionMatch(x, n) ==
  /\ Len(x) >= 2 /\ x[1] = "revision_number="
  /\ LET d == Tail(x) IN
     IF n < 0
     THEN /\ d[1] = "-" /\ IsDigits(Tail(d)) /\ DecimalValue(Tail(d)) = 0 - n
          /\ Tail(d)[1] # "0"
     ELSE /\ IsDigits(d) /\ DecimalValue(d) = n
          /\ (Len(d) > 1 => d[1] # "0")

\* C15: Update sends If-Match: revision_number=<n> exactly when
\* UpdateOpts.RevisionNumber points to n, no If-Match header when it is nil,
\* and the revision number is never a key of the JSON body.
C15_IfMatchCarriesRevisionNumber ==
  (subnetReq.sent /\ subnetOpts.kind = "UpdateOpts")
    => /\ subnetReq.method = "PUT"
       /\ IF subnetOpts.RevisionNumber.set
          THEN /\ DOMAIN subnetReq.headers = {"If-Match"}
               /\ IsRevisionMatch(subnetReq.headers["If-Match"],
                                  subnetOpts.RevisionNumber.val)
          ELSE DOMAIN subnetReq.headers = {}
       /\ DOMAIN subnetReq.body \subseteq {"name", "gateway_ip"}

\* An update conditioned on a revision number of two digits.
C15_Witness ==
  /\ subnetReq.sent /\ subnetOpts.kind = "UpdateOpts"
  /\ subnetOpts.RevisionNumber = Ptr(10)
  /\ subnetReq.headers["If-Match"] = << "revision_number=", "1", "0" >>

\* C16: in the bodies of Create and Update gateway_ip is three-valued: a nil
\* GatewayIP leaves the key out, a GatewayIP pointing to "" gives null, and a
\* GatewayIP pointing to an address gives that address.
C16_GatewayIPThreeValued ==
  subnetReq.sent
    => IF ~subnetOpts.GatewayIP.set
       THEN "gateway_ip" \notin DOMAIN subnetReq.body
       ELSE /\ "gateway_ip" \in DOMAIN subnetReq.body
            /\ subnetReq.body["gateway_ip"] =
                 (IF subnetOpts.GatewayIP.val = "" THEN JNull
                  ELSE JString(subnetOpts.GatewayIP.val))

\* A subnet created with no gateway: GatewayIP points to "".
C16_Witness ==
  /\ subnetReq.sent /\ subnetOpts.kind = "CreateOpts"
  /\ subnetOpts.GatewayIP = Ptr("")
  /\ subnetReq.body["gateway_ip"] = JNull

\* C18: when the fresh authentication inside the ReauthFunc fails, the
\* callback returns the error and the live provider is what it was before:
\* token, auth result, ReauthFunc and EndpointLocator; a token the failed
\* authentication left on the throw-away client is not copied.
C18_FailedReauthLeavesProviderAlone ==
  (call.op = "ReauthFunc" /\ call.err # "nil")
    => /\ call.changed = {}
       /\ call.err = "ErrCatalog" => (tac.TokenID = clock /\ live.TokenID # clock)

\* The fresh authentication got a token and then failed on the catalog: the
\* throw-away client holds the new token, the live provider the old one.
C18_Witness ==
  /\ call.op = "ReauthFunc" /\ call.err = "ErrCatalog"
  /\ tac.TokenID = clock /\ live.TokenID # 0 /\ live.TokenID < tac.TokenID
  /\ live.ReauthFunc # NoFunc

\* C19: v2auth and v3auth are all-or-nothing on the provider: when either
\* returns an error, the provider's token, ReauthFunc and EndpointLocator are
\* what they were before the call.
C19_AuthAllOrNothing ==
  (/\ call.op \in {"Authenticate", "AuthenticateV2", "AuthenticateV3"}
   /\ call.via \in {v2, v3}
   /\ call.err # "nil")
    => ProviderUntouched

====
